---- MODULE Spec2Model ----
(***************************************************************************)
(* Model of mask.py: the grayscale colour mapping                          *)
(* (get_color_for_attention_score), the PIL grid renderer                  *)
(* (generate_diagram) and the matplotlib visualization pass                *)
(* (visualize_attentions).                                                 *)
(*                                                                         *)
(* Scores are rationals n / ScoreDen, held as their numerator n.  An image *)
(* is its width, its height and the draw operations applied to it, in      *)
(* order; a pixel has the fill of the last one covering it.  A token is    *)
(* held as the pixel width its text measures in FONT, the only property of *)
(* the text that the geometry reads.                                       *)
(***************************************************************************)
EXTENDS Integers, Sequences, FiniteSets, TLC

VARIABLES
    cscore, cresult,                       \* get_color_for_attention_score: argument, outcome
    pc, call, img, ti, ci, cj,             \* generate_diagram: position, arguments, image, loop indices
    ncalls, prevCall, filesAtCall,         \* generate_diagram: calls made, previous call, files when called
    attentions, vtokens, vpc, verr,        \* visualize_attentions: arguments, position, error raised
    num_layers, num_heads, layer, head,    \* visualize_attentions: locals
    filesAtStart,                          \* files when the pass started
    files                                  \* the working directory: file name -> content

vars == <<cscore, cresult, pc, call, img, ti, ci, cj, ncalls, prevCall, filesAtCall,
          attentions, vtokens, vpc, verr, num_layers, num_heads, layer, head,
          filesAtStart, files>>

colorVars  == <<cscore, cresult>>
renderVars == <<pc, call, img, ti, ci, cj, ncalls, prevCall, filesAtCall>>
passVars   == <<attentions, vtokens, vpc, verr, num_layers, num_heads, layer, head, filesAtStart>>

-----------------------------------------------------------------------------
(* Bounds *)

ScoreDen == 100

MaxOver == 5

MaxTokens == 2

MaxCalls == 2

MaxLayerNumber == 2

MaxHeadNumber == 1

MaxLayers == 2

MaxHeads == 2

(* Program constants *)

GRID_SIZE == 40

PIXELS_PER_WORD == 200

FONT_SIZE == 28

-----------------------------------------------------------------------------
(* Scores and matrices the inputs are drawn from *)

AllScores == (0 - MaxOver)..(ScoreDen + MaxOver)

BadScores == {0 - 1, ScoreDen + 1}

InRange(s) == 0 <= s /\ s <= ScoreDen

Identity(N) == [i \in 1..N |-> [j \in 1..N |-> IF i = j THEN ScoreDen ELSE 0]]

Gradient(N, k) == [i \in 1..N |-> [j \in 1..N |-> ((7 * i + 3 * j + k) * 9) % (ScoreDen + 1)]]

WithBad(M, N) == {M} \cup {[M EXCEPT ![i][j] = v] : <<i, j, v>> \in (1..N) \X (1..N) \X BadScores}

Matrices(N) == UNION {WithBad(M, N) : M \in {Identity(N), Gradient(N, 0)}}

HasBad(M) == \E i \in DOMAIN M : \E j \in DOMAIN M[i] : ~InRange(M[i][j])

TextWidths == {60, 230}

TokenLists(N) == {[i \in 1..N |-> w] : w \in TextWidths} \cup {[i \in 1..N |-> IF i % 2 = 1 THEN 230 ELSE 60]}

-----------------------------------------------------------------------------
(* File names: sequences of characters *)

Digits == <<"0", "1", "2", "3", "4", "5", "6", "7", "8", "9">>

RECURSIVE Str(_)
Str(n) == IF n < 10 THEN <<Digits[n + 1]>> ELSE Str(n \div 10) \o <<Digits[(n % 10) + 1]>>

DiagramNameCounted(layer_number, head_number) ==
    <<"A","t","t","e","n","t","i","o","n","_","L","a","y","e","r">> \o Str(layer_number)
        \o <<"_","H","e","a","d">> \o Str(head_number) \o <<"_">> \o Str(ncalls) \o <<".","p","n","g">>

DiagramName(layer_number, head_number) ==
    <<"A","t","t","e","n","t","i","o","n","_","L","a","y","e","r">> \o Str(layer_number)
        \o <<"_","H","e","a","d">> \o Str(head_number) \o <<".","p","n","g">>

NoFiles == [n \in {} |-> 0]

WriteFile(fs, name, content) ==
    [n \in (DOMAIN fs) \cup {name} |-> IF n = name THEN content ELSE fs[n]]

StaleFile == [width |-> 0, height |-> 0, ops |-> <<>>]

-----------------------------------------------------------------------------
(* get_color_for_attention_score *)

Black == <<0, 0, 0>>

White == <<255, 255, 255>>

ValueError == "ValueError"

GetColorUpperOnly(score) ==
    IF score > ScoreDen
    THEN ValueError
    ELSE LET gray_value == (score * 255) \div ScoreDen
         IN  <<gray_value, gray_value, gray_value>>

GetColorClamped(score) ==
    LET s == IF score < 0 THEN 0 ELSE IF score > ScoreDen THEN ScoreDen ELSE score
        gray_value == (s * 255) \div ScoreDen
    IN  <<gray_value, gray_value, gray_value>>

get_color_for_attention_score(score) ==
    IF ~(0 <= score /\ score <= ScoreDen)
    THEN ValueError
    ELSE LET gray_value == (score * 255) \div ScoreDen
         IN  <<gray_value, gray_value, gray_value>>

ColorCall ==
    /\ cresult = "none"
    /\ cresult' = get_color_for_attention_score(cscore)
    /\ UNCHANGED <<cscore, renderVars, passVars, files>>

-----------------------------------------------------------------------------
(* generate_diagram *)

ImageSizeShort(tokens) == GRID_SIZE * (Len(tokens) - 1) + PIXELS_PER_WORD

ImageSize(tokens) == GRID_SIZE * Len(tokens) + PIXELS_PER_WORD

\* ImageDraw.rectangle fills both corners inclusive
Covers(op, x, y) == op.x0 <= x /\ x <= op.x1 /\ op.y0 <= y /\ y <= op.y1

RECURSIVE PixelFrom(_, _, _, _)
PixelFrom(ops, k, x, y) ==
    IF k = 0 THEN Black
    ELSE IF Covers(ops[k], x, y) THEN ops[k].fill
    ELSE PixelFrom(ops, k - 1, x, y)

PixelAt(image, x, y) == PixelFrom(image.ops, Len(image.ops), x, y)

\* token_draw.text at (image_size - PIXELS_PER_WORD, PIXELS_PER_WORD + i * GRID_SIZE),
\* then rotate(90): the pixel (x, y) of the layer lands on (y, image_size - 1 - x)
ColumnLabel(i, width) ==
    [x0 |-> PIXELS_PER_WORD + i * GRID_SIZE, x1 |-> PIXELS_PER_WORD + i * GRID_SIZE + FONT_SIZE,
     y0 |-> PIXELS_PER_WORD - 1 - width,     y1 |-> PIXELS_PER_WORD - 1,
     fill |-> "text"]

\* draw.text at (PIXELS_PER_WORD - width, PIXELS_PER_WORD + i * GRID_SIZE)
RowLabel(i, width) ==
    [x0 |-> PIXELS_PER_WORD - width,        x1 |-> PIXELS_PER_WORD,
     y0 |-> PIXELS_PER_WORD + i * GRID_SIZE, y1 |-> PIXELS_PER_WORD + i * GRID_SIZE + FONT_SIZE,
     fill |-> "text"]

CellRectTransposed(i, j, color) ==
    LET y == PIXELS_PER_WORD + j * GRID_SIZE
        x == PIXELS_PER_WORD + i * GRID_SIZE
    IN  [x0 |-> x, y0 |-> y, x1 |-> x + GRID_SIZE, y1 |-> y + GRID_SIZE, fill |-> color]

CellRect(i, j, color) ==
    LET y == PIXELS_PER_WORD + i * GRID_SIZE
        x == PIXELS_PER_WORD + j * GRID_SIZE
    IN  [x0 |-> x, y0 |-> y, x1 |-> x + GRID_SIZE, y1 |-> y + GRID_SIZE, fill |-> color]

NoCall == [layer_number |-> 0, head_number |-> 0, tokens |-> <<>>, attention_weights |-> <<>>]

NoImage == [width |-> 0, height |-> 0, ops |-> <<>>]

\* lines 121-124: entry and Image.new
Begin(args) ==
    /\ ncalls' = ncalls + 1
    /\ prevCall' = call
    /\ call' = args
    /\ filesAtCall' = files
    /\ img' = [width |-> ImageSize(args.tokens), height |-> ImageSize(args.tokens), ops |-> <<>>]
    /\ ti' = 0
    /\ ci' = 0
    /\ cj' = 0
    /\ pc' = "tokens"
    /\ UNCHANGED <<files, colorVars, passVars>>

Call ==
    /\ pc = "idle"
    /\ \E N \in 1..MaxTokens :
       \E tokens \in TokenLists(N), weights \in Matrices(N),
          ln \in 1..MaxLayerNumber, hn \in 1..MaxHeadNumber :
            Begin([layer_number |-> ln, head_number |-> hn,
                   tokens |-> tokens, attention_weights |-> weights])

CallAgain ==
    /\ pc \in {"done", "raised"}
    /\ ncalls < MaxCalls
    /\ Begin(call)

\* a further call for the same diagram, one score of the matrix now out of range
CallSpoiled ==
    /\ pc = "done"
    /\ ncalls < MaxCalls
    /\ \E weights \in WithBad(call.attention_weights, Len(call.tokens)) \ {call.attention_weights} :
            Begin([call EXCEPT !.attention_weights = weights])

\* lines 127-147: one iteration of the label loop
DrawToken ==
    /\ pc = "tokens"
    /\ ti < Len(call.tokens)
    /\ img' = [img EXCEPT !.ops = @ \o <<ColumnLabel(ti, call.tokens[ti + 1]),
                                         RowLabel(ti, call.tokens[ti + 1])>>]
    /\ ti' = ti + 1
    /\ pc' = IF ti + 1 = Len(call.tokens) THEN "cells" ELSE "tokens"
    /\ UNCHANGED <<call, ci, cj, ncalls, prevCall, filesAtCall, files, colorVars, passVars>>

\* lines 150-155: one iteration of the cell loop, the score in range
DrawCell ==
    /\ pc = "cells"
    /\ LET color == get_color_for_attention_score(call.attention_weights[ci + 1][cj + 1])
           N == Len(call.tokens)
       IN  /\ color # ValueError
           /\ img' = [img EXCEPT !.ops = Append(@, CellRect(ci, cj, color))]
           /\ cj' = IF cj + 1 = N THEN 0 ELSE cj + 1
           /\ ci' = IF cj + 1 = N THEN ci + 1 ELSE ci
           /\ pc' = IF cj + 1 = N /\ ci + 1 = N THEN "save" ELSE "cells"
    /\ UNCHANGED <<call, ti, ncalls, prevCall, filesAtCall, files, colorVars, passVars>>

\* line 154: get_color_for_attention_score raises, generate_diagram is left
CellRaises ==
    /\ pc = "cells"
    /\ get_color_for_attention_score(call.attention_weights[ci + 1][cj + 1]) = ValueError
    /\ pc' = "raised"
    /\ UNCHANGED <<call, img, ti, ci, cj, ncalls, prevCall, filesAtCall, files, colorVars, passVars>>

\* lines 157-158
Save ==
    /\ pc = "save"
    /\ files' = WriteFile(files, DiagramName(call.layer_number, call.head_number), img)
    /\ pc' = "done"
    /\ UNCHANGED <<call, img, ti, ci, cj, ncalls, prevCall, filesAtCall, colorVars, passVars>>

-----------------------------------------------------------------------------
(* visualize_attentions *)

\* attentions[layer][0][head] is the N x N matrix of one head; sequences count from 1
Tensor(L, H, N, k) ==
    [l \in 1..L |-> <<[h \in 1..H |-> IF k = 0 THEN Identity(N) ELSE Gradient(N, 5 * l + 11 * h)]>>]

TensorsWithBad(T, L, H, N) ==
    {T} \cup {[T EXCEPT ![l][1][h][i][j] = v] :
                <<l, h, i, j, v>> \in (1..L) \X (1..H) \X (1..N) \X (1..N) \X BadScores}

Tensors == UNION {TensorsWithBad(Tensor(L, H, N, k), L, H, N) :
                    <<L, H, N, k>> \in (0..MaxLayers) \X (1..MaxHeads) \X (1..MaxTokens) \X {0, 1}}

IndexError == "IndexError"

\* matplotlib's 'Greys' colormap: nine anchors from white to black, linear between them
GreysAnchors == <<255, 240, 217, 189, 150, 115, 82, 37, 0>>

\* Normalize(vmin=0, vmax=1) and the 256-entry lookup table; out-of-range scores take
\* the end colours
Greys(score) ==
    LET s   == IF score < 0 THEN 0 ELSE IF score > ScoreDen THEN ScoreDen ELSE score
        idx == IF s = ScoreDen THEN 255 ELSE (s * 256) \div ScoreDen
        k   == IF idx = 255 THEN 7 ELSE (idx * 8) \div 255
        a   == GreysAnchors[k + 1]
        b   == GreysAnchors[k + 2]
        v   == a - ((a - b) * (idx * 8 - 255 * k)) \div 255
    IN  <<v, v, v>>

\* lines 90-104: the figure drawn for one head
Figure(tokens, attention_scores, l, h) ==
    [title |-> <<l + 1, h + 1>>,
     ticks |-> tokens,
     shade |-> [i \in DOMAIN attention_scores |->
                  [j \in DOMAIN attention_scores[i] |-> Greys(attention_scores[i][j])]]]

VizName(l, h) ==
    <<"a","t","t","e","n","t","i","o","n","_","l","a","y","e","r","_">> \o Str(l + 1)
        \o <<"_","h","e","a","d","_">> \o Str(h + 1) \o <<".","p","n","g">>

HeadCountLenient(att) ==
    IF Len(att) = 0 THEN [raised |-> FALSE, value |-> 0]
    ELSE [raised |-> FALSE, value |-> Len(att[1][1][1])]

\* line 82: len(attentions[0][0][0])
HeadCount(att) ==
    IF Len(att) = 0 THEN [raised |-> TRUE, value |-> 0]
    ELSE [raised |-> FALSE, value |-> Len(att[1][1][1])]

\* lines 81-82
VStart ==
    /\ vpc = "start"
    /\ ~HeadCount(attentions).raised
    /\ num_layers' = Len(attentions)
    /\ num_heads' = HeadCount(attentions).value
    /\ layer' = 0
    /\ head' = 0
    /\ vpc' = IF Len(attentions) = 0 \/ HeadCount(attentions).value = 0 THEN "done" ELSE "loop"
    /\ UNCHANGED <<attentions, vtokens, verr, filesAtStart, files, colorVars, renderVars>>

\* line 82 on an empty tuple
VStartRaises ==
    /\ vpc = "start"
    /\ HeadCount(attentions).raised
    /\ vpc' = "raised"
    /\ verr' = IndexError
    /\ UNCHANGED <<attentions, vtokens, num_layers, num_heads, layer, head, filesAtStart,
                   files, colorVars, renderVars>>

\* lines 86-108: one iteration of the loops
VDiagram ==
    /\ vpc = "loop"
    /\ head < Len(attentions[layer + 1][1])
    /\ LET attention_scores == attentions[layer + 1][1][head + 1]
       IN  files' = WriteFile(files, VizName(layer, head),
                              Figure(vtokens, attention_scores, layer, head))
    /\ head' = IF head + 1 = num_heads THEN 0 ELSE head + 1
    /\ layer' = IF head + 1 = num_heads THEN layer + 1 ELSE layer
    /\ vpc' = IF head + 1 = num_heads /\ layer + 1 = num_layers THEN "done" ELSE "loop"
    /\ UNCHANGED <<attentions, vtokens, verr, num_layers, num_heads, filesAtStart,
                   colorVars, renderVars>>

\* line 87: the head index is past the heads of the layer
VHeadOutOfRange ==
    /\ vpc = "loop"
    /\ head >= Len(attentions[layer + 1][1])
    /\ vpc' = "raised"
    /\ verr' = "InvalidArgumentError"
    /\ UNCHANGED <<attentions, vtokens, num_layers, num_heads, layer, head, filesAtStart,
                   files, colorVars, renderVars>>

-----------------------------------------------------------------------------
(* Specifications *)

PassIdle ==
    /\ attentions = <<>>
    /\ vtokens = <<>>
    /\ vpc = "idle"
    /\ verr = "none"
    /\ num_layers = 0
    /\ num_heads = 0
    /\ layer = 0
    /\ head = 0
    /\ filesAtStart = NoFiles

RenderIdle ==
    /\ pc = "idle"
    /\ call = NoCall
    /\ img = NoImage
    /\ ti = 0
    /\ ci = 0
    /\ cj = 0
    /\ ncalls = 0
    /\ prevCall = NoCall
    /\ filesAtCall = NoFiles

ColorIdle ==
    /\ cscore = 0
    /\ cresult = "idle"

InitColor ==
    /\ cscore \in AllScores
    /\ cresult = "none"
    /\ RenderIdle
    /\ PassIdle
    /\ files = NoFiles

NextColor == ColorCall

SpecColor == InitColor /\ [][NextColor]_vars

InitRender ==
    /\ ColorIdle
    /\ RenderIdle
    /\ PassIdle
    /\ files \in {NoFiles, WriteFile(NoFiles, DiagramName(1, 1), StaleFile)}

NextRender == Call \/ CallAgain \/ CallSpoiled \/ DrawToken \/ DrawCell \/ CellRaises \/ Save

SpecRender == InitRender /\ [][NextRender]_vars

InitPass ==
    /\ ColorIdle
    /\ RenderIdle
    /\ attentions \in Tensors
    /\ vtokens \in UNION {TokenLists(N) : N \in 1..MaxTokens}
    /\ Len(attentions) > 0 => Len(vtokens) = Len(attentions[1][1][1])
    /\ vpc = "start"
    /\ verr = "none"
    /\ num_layers = 0
    /\ num_heads = 0
    /\ layer = 0
    /\ head = 0
    /\ files \in {NoFiles, WriteFile(NoFiles, VizName(0, 0), StaleFile)}
    /\ filesAtStart = files

NextPass == VStart \/ VStartRaises \/ VDiagram \/ VHeadOutOfRange

SpecPass == InitPass /\ [][NextPass]_vars

-----------------------------------------------------------------------------
(* Properties *)

Triple(v) == <<v, v, v>>

CallName == DiagramName(call.layer_number, call.head_number)

TokenCount == Len(call.tokens)

CellPixels == 0..(GRID_SIZE - 1)

\* C1: for every score in [0, 1] the colour is the gray (v, v, v) with v the integer
\* nearest to 255 * score (at most one half away from it), not its truncation.
C1_NearestGray ==
    (cresult # "none" /\ InRange(cscore)) =>
        \E v \in 0..255 :
            /\ cresult = Triple(v)
            /\ 2 * (v * ScoreDen - 255 * cscore) <= ScoreDen
            /\ 2 * (255 * cscore - v * ScoreDen) <= ScoreDen

\* C2: the colour mapping raises exactly when the score is outside [0, 1]; a score in
\* [0, 1], the endpoints included, returns a gray triple, and no score is clamped.
C2_RaisesIffOutOfRange ==
    cresult # "none" =>
        /\ (cresult = ValueError) <=> ~InRange(cscore)
        /\ InRange(cscore) => \E v \in 0..255 : cresult = Triple(v)

C2_Witness == cresult = ValueError /\ cscore = ScoreDen + 1

\* C3: a call of generate_diagram whose matrix holds an out-of-range score never
\* reaches the save, and the files on disk stay what they were when it was called.
C3_NoFileOnBadScore ==
    /\ (pc # "idle" /\ HasBad(call.attention_weights)) =>
            (pc \in {"tokens", "cells", "raised"} /\ files = filesAtCall)
    /\ pc = "raised" => HasBad(call.attention_weights)

C3_Witness ==
    /\ pc = "raised"
    /\ ci + cj > 0
    /\ Len(img.ops) > 2 * TokenCount
    /\ CallName \in DOMAIN files
    /\ files[CallName] # StaleFile
    /\ files[CallName].ops # img.ops

\* C7: once all cells are drawn, every pixel of the GRID_SIZE x GRID_SIZE square at
\* (PIXELS_PER_WORD + j * GRID_SIZE, PIXELS_PER_WORD + i * GRID_SIZE) has the colour of
\* attention_weights[i][j]; for the identity matrix that is white on the diagonal and
\* black off it; and the file saved next is that image.
C7_CellsShaded ==
    /\ pc = "save" =>
          \A i \in 0..(TokenCount - 1), j \in 0..(TokenCount - 1) :
             \A dx \in CellPixels, dy \in CellPixels :
                LET p == PixelAt(img, PIXELS_PER_WORD + j * GRID_SIZE + dx,
                                      PIXELS_PER_WORD + i * GRID_SIZE + dy)
                IN  /\ p = get_color_for_attention_score(call.attention_weights[i + 1][j + 1])
                    /\ call.attention_weights = Identity(TokenCount) =>
                           p = IF i = j THEN White ELSE Black
    /\ pc = "done" => files[CallName] = img

C7_Witness ==
    /\ pc = "done"
    /\ TokenCount = MaxTokens
    /\ TokenCount > 1
    /\ call.attention_weights[1][2] # call.attention_weights[2][1]

\* C8: the canvas is square with side PIXELS_PER_WORD + GRID_SIZE * N whatever the
\* token texts and the scores, one more token makes it GRID_SIZE larger, and every
\* cell square lies inside it.
C8_CanvasSize ==
    pc # "idle" =>
        /\ img.width = PIXELS_PER_WORD + GRID_SIZE * TokenCount
        /\ img.height = PIXELS_PER_WORD + GRID_SIZE * TokenCount
        /\ \A w \in TextWidths : ImageSize(Append(call.tokens, w)) = img.width + GRID_SIZE
        /\ \A k \in 0..(TokenCount - 1) :
             /\ PIXELS_PER_WORD + k * GRID_SIZE + (GRID_SIZE - 1) <= img.width - 1
             /\ PIXELS_PER_WORD + k * GRID_SIZE + (GRID_SIZE - 1) <= img.height - 1
        /\ pc = "done" => files[CallName].width = img.width /\ files[CallName].height = img.height

C8_Witness ==
    /\ pc = "done"
    /\ TokenCount = 2
    /\ files[CallName].width = 280
    /\ files[CallName].height = 280

\* C10: a second call of generate_diagram with the arguments of the call before it
\* writes the file name the first wrote and leaves the files as the first left them.
C10_Idempotent ==
    (pc = "done" /\ ncalls >= 2 /\ prevCall = call) =>
        /\ CallName \in DOMAIN filesAtCall
        /\ files = filesAtCall

C10_Witness ==
    /\ pc = "done"
    /\ ncalls = 2
    /\ prevCall = call
    /\ Cardinality(DOMAIN files) = 2

LayerCount == Len(attentions)

HeadsOfLayer0 == Len(attentions[1][1])

Pairs == IF LayerCount = 0 THEN {} ELSE (0..(LayerCount - 1)) \X (0..(HeadsOfLayer0 - 1))

BadPairs == {p \in Pairs : HasBad(attentions[p[1] + 1][1][p[2] + 1])}

Written == {n \in DOMAIN files : files[n] # StaleFile}

\* C4: when exactly one (layer, head) pair holds an out-of-range score, the pass never
\* writes the file of that pair and ends with the file of every other pair written.
C4_Isolation ==
    Cardinality(BadPairs) = 1 =>
        /\ \A p \in BadPairs : VizName(p[1], p[2]) \notin Written
        /\ vpc \in {"done", "raised"} =>
               \A p \in Pairs \ BadPairs : VizName(p[1], p[2]) \in Written

\* C5: after a complete pass over L layers and H heads exactly L * H files are written,
\* the file of (layer, head) named with layer + 1 and head + 1, no two pairs sharing one.
C5_OneFilePerPair ==
    vpc = "done" =>
        /\ Written = {VizName(p[1], p[2]) : p \in Pairs}
        /\ Cardinality(Written) = LayerCount * HeadsOfLayer0

\* C6: in every diagram the pass writes, a score of 0 is drawn black, a score of 1 white,
\* and a higher score is never drawn darker than a lower one.
C6_HigherIsLighter ==
    \A n \in Written :
        LET d == files[n]
            M == attentions[d.title[1]][1][d.title[2]]
        IN  \A i \in DOMAIN M, j \in DOMAIN M :
               /\ M[i][j] = 0 => d.shade[i][j] = Black
               /\ M[i][j] = ScoreDen => d.shade[i][j] = White
               /\ \A i2 \in DOMAIN M, j2 \in DOMAIN M :
                     M[i][j] < M[i2][j2] => d.shade[i][j][1] <= d.shade[i2][j2][1]

\* C9: a pass over a tensor of zero layers raises before anything is drawn and leaves
\* every file as it was.
C9_EmptyTensorAborts ==
    LayerCount = 0 =>
        /\ vpc \in {"start", "raised"}
        /\ vpc = "raised" => verr = IndexError
        /\ files = filesAtStart

C9_Witness ==
    /\ LayerCount = 0
    /\ vpc = "raised"
    /\ VizName(0, 0) \in DOMAIN files

====
